---- MODULE Spec2Model ----
(***************************************************************************)
(* Model of the exobase pulumi packages: function discovery                *)
(* (getFunctionMap), lambda naming (lambdaName), route projection (the     *)
(* AWSLambdaAPI constructor), the local build/packaging helpers            *)
(* (buildTypescriptLambdaZip, buildSiteDistributionFolder, buildSourceZip) *)
(* and the custom-domain setup of the AWSStaticWebsite constructor.        *)
(*                                                                         *)
(* A string is a sequence of one-character strings, so that suffix tests,  *)
(* replacement and slicing are computed character by character.            *)
(***************************************************************************)
EXTENDS Integers, Sequences, FiniteSets, TLC

VARIABLES
    rootExists,   \* does <sourceDir>/src/modules exist
    entries,      \* directory entries below it: [parent, name, dir]
    ext,          \* getFunctionMap: the ext argument
    gpc,          \* getFunctionMap: position in the function
    modules,      \* getFunctionMap: names of the module directories, listing order
    nested,       \* getFunctionMap: one list of records per module read so far
    functions,    \* getFunctionMap: the returned array
    gerr,         \* getFunctionMap: the error thrown
    stackName,    \* AWSLambdaAPI: the name argument of the constructor
    lmodule,      \* lambdaName: the module argument
    lfunc,        \* lambdaName: the func argument
    lname,        \* lambdaName: the returned name
    argFunctions, \* AWSLambdaAPI: the discovered functions the constructor maps over
    rpc,          \* AWSLambdaAPI: position in the constructor
    lambdas,      \* AWSLambdaAPI: const lambdas, one { ...func, lambda } per function
    thisLambdas,  \* AWSLambdaAPI: this.lambdas
    routes,       \* AWSLambdaAPI: the routes handed to awsx.apigateway.API
    useNvm,       \* !!process.env.USE_NVM
    runs,         \* how many provisioning runs have been started
    pkgJson,      \* buildTypescriptLambdaZip: does <root>/package.json exist
    buildDir,     \* buildTypescriptLambdaZip: the files of <root>/build, None if absent
    zipFile,      \* buildTypescriptLambdaZip: the entries of <root>/aws-lambda-api.zip, None if absent
    zpc,          \* buildTypescriptLambdaZip: position in the function
    buildExit,    \* buildTypescriptLambdaZip: exit status of the build command
    zipExit,      \* buildTypescriptLambdaZip: exit status of the zip command
    zresult,      \* buildTypescriptLambdaZip: the value the promise resolved with
    zerr,         \* buildTypescriptLambdaZip: the error the promise rejected with
    zipSource,    \* AWSLambdaAPI: what the FileArchive built on zipPath has read
    buildCommand, \* buildSourceZip: args.buildCommand
    argSourceDir, \* buildSourceZip: args.sourceDir
    pkgSource,    \* buildSourceZip: the files of <__dirname>/source, Nothing if absent
    sourceZip,    \* buildSourceZip: the files in <sourceDir>/source.zip, Nothing if absent
    spc,          \* buildSourceZip: position in the function
    buildspec,    \* buildSourceZip: const buildspec
    szipExit,     \* buildSourceZip: exit status of the zip command
    sresult,      \* buildSourceZip: the value the promise resolved with
    serr,         \* buildSourceZip: the error the promise rejected with
    preBuildCommand,  \* AWSStaticWebsite: args.preBuildCommand
    siteBuildCommand, \* AWSStaticWebsite: args.buildCommand
    dist,         \* AWSStaticWebsite: the tree of the distribution directory, Nothing if absent
    wpc,          \* AWSStaticWebsite: position in the build and the crawl that follows it
    preExit,      \* AWSStaticWebsite: exit status of the pre-build command
    siteExit,     \* AWSStaticWebsite: exit status of the build command
    bucketObjects, \* AWSStaticWebsite: the aws.s3.BucketObject resources declared
    werr,         \* AWSStaticWebsite: the error the build.then(...) promise rejected with
    domain,       \* AWSStaticWebsite: args.domain, Nothing if not given
    cpc,          \* AWSStaticWebsite: position in the constructor after the build is started
    cert,         \* AWSStaticWebsite: const cert, Nothing if undefined
    cdn,          \* AWSStaticWebsite: the arguments of this.cdn, Nothing before it is declared
    zone,         \* AWSStaticWebsite: the id of the hosted zone found by getZone
    aRecord,      \* AWSStaticWebsite: this.aRecord
    wwwaRecord,   \* AWSStaticWebsite: this.wwwaRecord
    cerr          \* AWSStaticWebsite: the error the constructor threw

discoverVars == <<rootExists, entries, ext, gpc, modules, nested, functions, gerr>>
nameVars == <<lmodule, lfunc, lname>>
routeVars == <<argFunctions, rpc, lambdas, thisLambdas, routes>>
lambdaZipVars == <<pkgJson, buildDir, zipFile, zpc, buildExit, zipExit, zresult, zerr,
                   zipSource>>
sourceZipVars == <<buildCommand, argSourceDir, pkgSource, sourceZip, spc, buildspec, szipExit,
                   sresult, serr>>

siteVars == <<preBuildCommand, siteBuildCommand, dist, wpc, preExit, siteExit,
              bucketObjects, werr>>

domainVars == <<domain, cpc, cert, cdn, zone, aRecord, wwwaRecord, cerr>>

vars == <<discoverVars, stackName, nameVars, routeVars, useNvm, runs,
          lambdaZipVars, sourceZipVars, siteVars, domainVars>>

notDiscover == <<stackName, nameVars, routeVars, useNvm, runs, lambdaZipVars,
                 sourceZipVars, siteVars, domainVars>>
notName == <<discoverVars, routeVars, useNvm, runs, lambdaZipVars, sourceZipVars, siteVars,
             domainVars>>
notRoutes == <<discoverVars, nameVars, useNvm, runs, lambdaZipVars, sourceZipVars, siteVars,
               domainVars>>
notZip == <<discoverVars, stackName, nameVars, routeVars, siteVars, domainVars>>
notSite == <<discoverVars, stackName, nameVars, routeVars, runs, lambdaZipVars, sourceZipVars,
             domainVars>>
notDomain == <<discoverVars, stackName, nameVars, routeVars, useNvm, runs, lambdaZipVars,
               sourceZipVars, siteVars>>

\* ---------------------------------------------------------------- bounds
\* Largest number of directory entries in the tree below src/modules.
MaxEntries == 4

\* Largest length of the stack name handed to lambdaName.
MaxStackLen == 60

\* Largest number of functions handed to the AWSLambdaAPI constructor.
MaxFunctions == 3

\* Largest number of provisioning runs against one source directory.
MaxRuns == 2

\* Largest exit status of a shell command.
MaxExit == 2

\* ---------------------------------------------------------------- strings
None == <<"<none>">>

\* An optional value (undefined, a path that holds no file, a command not yet
\* run) is the empty tuple when absent and a one-element tuple when present.
Nothing == <<>>
Some(v) == <<v>>

S_ts == <<"t", "s">>
S_js == <<"j", "s">>

\* The extensions tried (two of LanguageExtension).
Exts == {S_ts, S_js}

\* args.sourceDir
SourceDir == <<"/", "w">>

\* Names an entry directly under src/modules may have.
RootNames == {<<"m">>, <<"n">>}

\* Names a file that lies directly under src/modules may have besides.
StrayNames == { <<"a", ".", "t", "s">> }

\* Names an entry inside a module directory (or below it) may have.
FileNames ==
    { <<"a", ".", "t", "s">>,
      <<"a", ".", "j", "s">>,
      <<"b", ".", "t", "s">>,
      <<"a", ".", "T", "S">>,
      <<"a", ".", "t", "s", "x">>,
      <<".", "t", "s">>,
      <<".", "t", "s", "a", ".", "t", "s">>,
      <<"a", ".", "t", "s", ".", "t", "s">> }

\* Names a file below a directory that lies inside a module directory may have.
DeepNames == { <<"a", ".", "t", "s">> }

\* A suffix test that accepts the suffix anywhere in the string.
EndsWithAnywhere(s, suffix) ==
    \E i \in 1..(Len(s) - Len(suffix) + 1) : SubSeq(s, i, i + Len(suffix) - 1) = suffix

\* String.prototype.endsWith
EndsWith(s, suffix) ==
    /\ Len(s) >= Len(suffix)
    /\ \A i \in 1..Len(suffix) : s[Len(s) - Len(suffix) + i] = suffix[i]

\* String.prototype.indexOf: first position (1-based) of pat in s, 0 if none
IndexOf(s, pat) ==
    LET hits == {i \in 1..(Len(s) - Len(pat) + 1) :
                    SubSeq(s, i, i + Len(pat) - 1) = pat}
    IN IF hits = {} THEN 0 ELSE CHOOSE i \in hits : \A j \in hits : i <= j

\* String.prototype.replace with a string pattern: the first occurrence only
Replace(s, pat, rep) ==
    LET i == IndexOf(s, pat)
    IN IF i = 0 THEN s
       ELSE SubSeq(s, 1, i - 1) \o rep \o SubSeq(s, i + Len(pat), Len(s))

\* ---------------------------------------------------------------- path.join
RECURSIVE SplitSlash(_)
SplitSlash(s) ==
    IF s = <<>> THEN << <<>> >>
    ELSE LET rest == SplitSlash(Tail(s))
         IN IF Head(s) = "/" THEN << <<>> >> \o rest
            ELSE << <<Head(s)>> \o Head(rest) >> \o Tail(rest)

RECURSIVE JoinSlash(_)
JoinSlash(segs) ==
    IF segs = <<>> THEN <<>>
    ELSE IF Len(segs) = 1 THEN Head(segs)
    ELSE Head(segs) \o <<"/">> \o JoinSlash(Tail(segs))

\* normalizeString of node's path module: drops empty and "." segments and
\* resolves ".." against the segment before it.
RECURSIVE NormSegs(_, _, _)
NormSegs(segs, acc, allowAbove) ==
    IF segs = <<>> THEN acc
    ELSE LET h == Head(segs)
             t == Tail(segs)
         IN IF h = <<>> \/ h = <<".">> THEN NormSegs(t, acc, allowAbove)
            ELSE IF h = <<".", ".">>
                 THEN IF acc # <<>> /\ acc[Len(acc)] # <<".", ".">>
                      THEN NormSegs(t, SubSeq(acc, 1, Len(acc) - 1), allowAbove)
                      ELSE IF allowAbove THEN NormSegs(t, Append(acc, h), allowAbove)
                      ELSE NormSegs(t, acc, allowAbove)
            ELSE NormSegs(t, Append(acc, h), allowAbove)

\* path.normalize (posix)
PathNormalize(p) ==
    IF p = <<>> THEN <<".">>
    ELSE LET abs   == p[1] = "/"
             trail == p[Len(p)] = "/"
             body  == JoinSlash(NormSegs(SplitSlash(p), <<>>, ~abs))
         IN IF body = <<>>
            THEN IF abs THEN <<"/">> ELSE IF trail THEN <<".", "/">> ELSE <<".">>
            ELSE (IF abs THEN <<"/">> ELSE <<>>) \o body
                     \o (IF trail THEN <<"/">> ELSE <<>>)

\* path.join(a, b)
PathJoin(a, b) ==
    IF a = <<>> /\ b = <<>> THEN <<".">>
    ELSE IF a = <<>> THEN PathNormalize(b)
    ELSE IF b = <<>> THEN PathNormalize(a)
    ELSE PathNormalize(a \o <<"/">> \o b)

\* relPath of getFunctionMap
relPath(rel) == PathJoin(SourceDir, rel)

S_srcModules == <<"/", "s", "r", "c", "/", "m", "o", "d", "u", "l", "e", "s">>

\* ---------------------------------------------------------------- filesystem
\* The entries of the directory whose path below src/modules is `parent`.
Children(parent) == {e \in entries : e.parent = parent}

IsDirAt(parent, name) ==
    \E e \in entries : e.parent = parent /\ e.name = name /\ e.dir

\* The Dirent of an entry, as readdirSync(..., { withFileTypes: true }) gives it.
Dirent(e) == [name |-> e.name, dir |-> e.dir]

\* Every order in which a directory's entries can be listed.
Listings(S) ==
    LET n == Cardinality(S)
    IN {l \in [1..n -> S] : \A x \in S : \E i \in 1..n : l[i] = x}

\* A readdirSync that reports a missing directory as an empty one.
ReaddirNeverThrows(exists) == FALSE

\* fs.readdirSync throws ENOENT on a directory that does not exist
ReaddirThrows(exists) == ~exists

\* The root listing without its isDirectory() filter.
ModuleDirsKeepingFiles(listing) ==
    [i \in 1..Len(listing) |-> listing[i].name]

\* .filter(item => item.isDirectory()).map(m => m.name ...) on the root listing
ModuleDirs(listing) ==
    LET isDirectory(item) == item.dir
        dirs == SelectSeq(listing, isDirectory)
    IN [i \in 1..Len(dirs) |-> dirs[i].name]

\* The file filter without its !item.isDirectory() step.
ModuleFilesKeepingDirs(listing, e) ==
    LET named(item) == EndsWith(item.name, <<".">> \o e)
    IN SelectSeq(listing, named)

\* .filter(item => !item.isDirectory()).filter(item => item.name.endsWith(`.${ext}`))
ModuleFiles(listing, e) ==
    LET notDirectory(item) == ~item.dir
        named(item) == EndsWith(item.name, <<".">> \o e)
    IN SelectSeq(SelectSeq(listing, notDirectory), named)

\* const funcName = tsFile.name.replace(`.${ext}`, '')
FuncName(fileName, e) == Replace(fileName, <<".">> \o e, <<>>)

\* The record built for one kept file of module m.
ModuleFunction(m, fileName, e) ==
    LET funcName == FuncName(fileName, e)
    IN [ function |-> funcName,
         module   |-> m,
         paths    |-> [ file   |-> relPath(S_srcModules \o <<"/">> \o m \o <<"/">> \o fileName),
                        import |-> relPath(S_srcModules \o <<"/">> \o m \o <<"/">> \o funcName) ] ]

\* The inner map over the kept files of module m.
ModuleRecords(m, listing, e) ==
    LET kept == ModuleFiles(listing, e)
    IN [i \in 1..Len(kept) |-> ModuleFunction(m, kept[i].name, e)]

\* _.flat
RECURSIVE Flat(_)
Flat(lists) ==
    IF lists = <<>> THEN <<>> ELSE Head(lists) \o Flat(Tail(lists))

\* ---------------------------------------------------------------- idle parts
\* Each specification below runs one part of the packages; the variables of
\* the other parts keep these values.
DiscoverIdle ==
    /\ rootExists = FALSE
    /\ entries = {}
    /\ ext = None
    /\ gpc = "idle"
    /\ modules = <<>>
    /\ nested = <<>>
    /\ functions = None
    /\ gerr = Nothing

NameIdle == lmodule = None /\ lfunc = None /\ lname = None

RoutesIdle ==
    /\ argFunctions = <<>>
    /\ rpc = "idle"
    /\ lambdas = <<>>
    /\ thisLambdas = <<>>
    /\ routes = <<>>

LambdaZipIdle ==
    /\ pkgJson = FALSE
    /\ buildDir = Nothing
    /\ zipFile = Nothing
    /\ zpc = "idle"
    /\ buildExit = Nothing
    /\ zipExit = Nothing
    /\ zresult = Nothing
    /\ zerr = Nothing
    /\ zipSource = Nothing

SourceZipIdle ==
    /\ buildCommand = ""
    /\ argSourceDir = ""
    /\ pkgSource = Nothing
    /\ sourceZip = Nothing
    /\ spc = "idle"
    /\ buildspec = Nothing
    /\ szipExit = Nothing
    /\ sresult = Nothing
    /\ serr = Nothing

ZipIdle == LambdaZipIdle /\ SourceZipIdle

SiteIdle ==
    /\ preBuildCommand = ""
    /\ siteBuildCommand = ""
    /\ dist = Nothing
    /\ wpc = "idle"
    /\ preExit = Nothing
    /\ siteExit = Nothing
    /\ bucketObjects = <<>>
    /\ werr = Nothing

DomainIdle ==
    /\ domain = Nothing
    /\ cpc = "idle"
    /\ cert = Nothing
    /\ cdn = Nothing
    /\ zone = Nothing
    /\ aRecord = Nothing
    /\ wwwaRecord = Nothing
    /\ cerr = Nothing

\* ---------------------------------------------------------------- discovery
InitDiscover ==
    /\ useNvm = FALSE
    /\ runs = 0
    /\ SiteIdle
    /\ DomainIdle
    /\ stackName = None
    /\ NameIdle
    /\ RoutesIdle
    /\ ZipIdle
    /\ rootExists \in BOOLEAN
    /\ entries = {}
    /\ ext = None
    /\ gpc = "setup"
    /\ modules = <<>>
    /\ nested = <<>>
    /\ functions = None
    /\ gerr = Nothing

\* The state of the directory tree before the call: one more entry, directly
\* under src/modules, inside a module directory, or one level below that.
MkEntry(parent, name, dir) ==
    /\ gpc = "setup"
    /\ rootExists
    /\ Cardinality(entries) < MaxEntries
    /\ ~\E e \in entries : e.parent = parent /\ e.name = name
    /\ \/ parent = <<>> /\ name \in RootNames
       \/ parent = <<>> /\ name \in StrayNames /\ ~dir
       \/ /\ Len(parent) = 1
          /\ IsDirAt(<<>>, parent[1])
          /\ name \in FileNames
       \/ /\ Len(parent) = 2
          /\ IsDirAt(<<parent[1]>>, parent[2])
          /\ name \in DeepNames
          /\ ~dir
    /\ entries' = entries \cup {[parent |-> parent, name |-> name, dir |-> dir]}
    /\ UNCHANGED <<rootExists, ext, gpc, modules, nested, functions, gerr>>
    /\ UNCHANGED notDiscover

\* getFunctionMap({ path, ext }) is called.
Call(e) ==
    /\ gpc = "setup"
    /\ ext' = e
    /\ gpc' = "readRoot"
    /\ UNCHANGED <<rootExists, entries, modules, nested, functions, gerr>>
    /\ UNCHANGED notDiscover

\* fs.readdirSync(relPath('/src/modules')).filter(item => item.isDirectory())
ReadRoot ==
    /\ gpc = "readRoot"
    /\ IF ReaddirThrows(rootExists)
       THEN /\ gpc' = "threw"
            /\ gerr' = Some("ENOENT")
            /\ UNCHANGED <<modules>>
       ELSE /\ \E l \in Listings({Dirent(x) : x \in Children(<<>>)}) :
                   modules' = ModuleDirs(l)
            /\ gpc' = "readModule"
            /\ UNCHANGED <<gerr>>
    /\ UNCHANGED <<rootExists, entries, ext, nested, functions>>
    /\ UNCHANGED notDiscover

\* One call of the .map(m => ...) callback: list module m and build its records.
ReadModule ==
    /\ gpc = "readModule"
    /\ Len(nested) < Len(modules)
    /\ LET m == modules[Len(nested) + 1]
       IN \E l \in Listings({Dirent(x) : x \in Children(<<m>>)}) :
              nested' = Append(nested, ModuleRecords(m, l, ext))
    /\ UNCHANGED <<rootExists, entries, ext, gpc, modules, functions, gerr>>
    /\ UNCHANGED notDiscover

\* return _.flat(modules)
Return ==
    /\ gpc = "readModule"
    /\ Len(nested) = Len(modules)
    /\ functions' = Flat(nested)
    /\ gpc' = "returned"
    /\ UNCHANGED <<rootExists, entries, ext, modules, nested, gerr>>
    /\ UNCHANGED notDiscover

Parents ==
    {<<>>} \cup {<<r>> : r \in RootNames}
           \cup {<<r, f>> : r \in RootNames, f \in FileNames}

NextDiscover ==
    \/ \E p \in Parents, n \in RootNames \cup FileNames, d \in BOOLEAN : MkEntry(p, n, d)
    \/ \E e \in Exts : Call(e)
    \/ ReadRoot
    \/ ReadModule
    \/ Return

SpecDiscover == InitDiscover /\ [][NextDiscover]_vars

\* ---------------------------------------------------------------- discovery: properties
DotExt == <<".">> \o ext

\* name = <anything> + "." + ext
HasDotExt(name) == \E k \in 0..Len(name) : name = SubSeq(name, 1, k) \o DotExt

\* The files directly inside a directory directly under src/modules.
ModuleLevelFiles == {e \in entries : Len(e.parent) = 1 /\ ~e.dir}

MatchingFiles == {e \in ModuleLevelFiles : HasDotExt(e.name)}

\* <sourceDir>/src/modules/<module>/<file name>
FilePathOf(e) ==
    SourceDir \o S_srcModules \o <<"/">> \o e.parent[1] \o <<"/">> \o e.name

RecordsOf(e) ==
    {i \in 1..Len(functions) :
        functions[i].module = e.parent[1] /\ functions[i].paths.file = FilePathOf(e)}

\* C1: whenever src/modules exists getFunctionMap raises no error and, for
\* every listing order, returns exactly one record per matching file: none
\* omitted, none doubled, none without such a file; with no matching file the
\* result is the empty sequence.
C1_OneRecordPerMatchingFile ==
    /\ rootExists => gpc # "threw"
    /\ gpc = "returned" =>
          /\ Len(functions) = Cardinality(MatchingFiles)
          /\ \A e \in MatchingFiles : Cardinality(RecordsOf(e)) = 1
          /\ \A i \in 1..Len(functions) : \E e \in MatchingFiles : i \in RecordsOf(e)
          /\ MatchingFiles = {} => functions = <<>>

\* Two modules each contribute a record, next to entries that contribute none.
C1_Witness ==
    /\ gpc = "returned"
    /\ Len(functions) = 2
    /\ functions[1].module # functions[2].module
    /\ Cardinality(entries) = MaxEntries

\* The tree of the example: module m holding a.ts, a.js and b.ts.
ExampleTree ==
    { [parent |-> <<>>, name |-> <<"m">>, dir |-> TRUE],
      [parent |-> << <<"m">> >>, name |-> <<"a", ".", "t", "s">>, dir |-> FALSE],
      [parent |-> << <<"m">> >>, name |-> <<"a", ".", "j", "s">>, dir |-> FALSE],
      [parent |-> << <<"m">> >>, name |-> <<"b", ".", "t", "s">>, dir |-> FALSE] }

\* The last Len(ext) + 1 characters of the name are "." + ext, character for
\* character (so case-sensitively).
LastCharsAreDotExt(name) ==
    /\ Len(name) >= Len(DotExt)
    /\ SubSeq(name, Len(name) - Len(DotExt) + 1, Len(name)) = DotExt

\* C2: a file inside a module directory yields a record if and only if its
\* name ends with exactly "." + ext, case-sensitively; with a.ts, a.js and
\* b.ts in module m and ext = ts the records are exactly (m, a) and (m, b).
C2_ExactSuffixFilter ==
    gpc = "returned" =>
        /\ \A e \in ModuleLevelFiles :
               RecordsOf(e) # {} <=> LastCharsAreDotExt(e.name)
        /\ (ext = S_ts /\ entries = ExampleTree) =>
               {<<functions[i].module, functions[i].function>> : i \in 1..Len(functions)}
                   = { << <<"m">>, <<"a">> >>, << <<"m">>, <<"b">> >> }

\* The example tree has been scanned for ts.
C2_Witness ==
    /\ gpc = "returned"
    /\ ext = S_ts
    /\ entries = ExampleTree
    /\ Len(functions) = 2

\* C3: every record's function name is the file name with the trailing
\* "." + ext removed and nothing else changed (function + "." + ext is the
\* file name), it is non-empty, and paths.import is paths.file without that
\* trailing suffix.
C3_FunctionNameIsFileNameWithoutSuffix ==
    gpc = "returned" =>
        \A i \in 1..Len(functions) :
            LET f == functions[i]
            IN /\ f.function # <<>>
               /\ f.paths.file = SourceDir \o S_srcModules \o <<"/">> \o f.module
                                     \o <<"/">> \o f.function \o DotExt
               /\ f.paths.file = f.paths.import \o DotExt

\* C4: no two records of one result carry the same module and the same
\* function name.
C4_ModuleFunctionPairsUnique ==
    gpc = "returned" =>
        \A i, j \in 1..Len(functions) :
            i # j => <<functions[i].module, functions[i].function>>
                       # <<functions[j].module, functions[j].function>>

\* C5: when src/modules does not exist the call ends in a not-found error and
\* never returns a sequence, empty or not.
C5_MissingRootThrows ==
    ~rootExists =>
        /\ gpc \in {"setup", "readRoot", "threw"}
        /\ functions = None
        /\ gpc = "threw" => gerr = Some("ENOENT")

\* The call on a missing src/modules has ended.
C5_Witness == ~rootExists /\ gpc = "threw" /\ gerr = Some("ENOENT")

\* The characters of a string.
CharsOf(str) == {str[i] : i \in 1..Len(str)}

\* The path of an entry of the tree, whatever its depth.
EntryPathOf(e) ==
    SourceDir \o S_srcModules \o <<"/">> \o JoinSlash(Append(e.parent, e.name))

\* The records that stand for an entry: by its path, or by its name as module.
RecordsAbout(e) ==
    {i \in 1..Len(functions) :
        \/ functions[i].paths.file = EntryPathOf(e)
        \/ Len(e.parent) # 1 /\ functions[i].module = e.name}

\* C14: getFunctionMap looks exactly two levels deep. A non-directory entry
\* directly under src/modules raises no error, is not taken for a module and
\* yields no record; a directory inside a module directory yields no record,
\* whatever its name, and neither does anything below it; every record stands
\* for a file directly inside a module directory, and no module or function
\* name holds a path separator.
C14_ExactlyTwoLevelsDeep ==
    /\ rootExists => gpc # "threw"
    /\ \A i \in 1..Len(modules) : IsDirAt(<<>>, modules[i])
    /\ gpc = "returned" =>
          /\ \A e \in entries :
                \/ Len(e.parent) = 0 /\ e.dir
                \/ Len(e.parent) = 1 /\ ~e.dir
                \/ RecordsAbout(e) = {}
          /\ \A i \in 1..Len(functions) :
                /\ IsDirAt(<<>>, functions[i].module)
                /\ \E e \in ModuleLevelFiles :
                      /\ e.parent = <<functions[i].module>>
                      /\ functions[i].paths.file = FilePathOf(e)
                /\ "/" \notin CharsOf(functions[i].module)
                /\ "/" \notin CharsOf(functions[i].function)

\* A scan for ts of a tree with a stray file a.ts directly under src/modules
\* and a module m whose only entry is a directory named a.ts holding a file
\* a.ts: nothing is returned.
C14_Witness ==
    /\ gpc = "returned"
    /\ ext = S_ts
    /\ entries =
          { [parent |-> <<>>, name |-> <<"a", ".", "t", "s">>, dir |-> FALSE],
            [parent |-> <<>>, name |-> <<"m">>, dir |-> TRUE],
            [parent |-> << <<"m">> >>, name |-> <<"a", ".", "t", "s">>, dir |-> TRUE],
            [parent |-> << <<"m">>, <<"a", ".", "t", "s">> >>,
             name |-> <<"a", ".", "t", "s">>, dir |-> FALSE] }
    /\ modules = << <<"m">> >>
    /\ functions = <<>>

\* ---------------------------------------------------------------- lambdaName
\* The characters _.dashCase splits at.
Separators == {".", "-", "_", " "}

\* _.dashCase on a string of lower-case letters and separators: the string is
\* split at every separator and the parts are joined with "-".
DashCase(str) ==
    [i \in 1..Len(str) |-> IF str[i] \in Separators THEN "-" ELSE str[i]]

Max(a, b) == IF a > b THEN a ELSE b
Min(a, b) == IF a < b THEN a ELSE b

\* String.prototype.slice(start, end): a negative index counts from the end.
Slice(s, start, end) ==
    LET len  == Len(s)
        from == IF start < 0 THEN Max(len + start, 0) ELSE Min(start, len)
        to   == IF end < 0 THEN Max(len + end, 0) ELSE Min(end, len)
    IN SubSeq(s, from + 1, to)

\* limit = 64 - (dash = 1) - (rand = 7)
NameLimit == 56

\* `${name}-${module}-${func}`
Composite(name, module, func) == name \o <<"-">> \o module \o <<"-">> \o func

\* A lambdaName whose slice keeps one character too many.
lambdaNameOffByOne(name, module, func) ==
    LET n == DashCase(Composite(name, module, func))
    IN IF Len(n) > NameLimit THEN Slice(n, 0, NameLimit + 1 - Len(n)) ELSE n

\* const lambdaName = (module, func) => ...
lambdaName(name, module, func) ==
    LET n == DashCase(Composite(name, module, func))
    IN IF Len(n) > NameLimit THEN Slice(n, 0, NameLimit - Len(n)) ELSE n

StackPattern == <<"m", "y", "_", "a", "p", "i", ".">>

\* The stack name of length k.
StackNameOfLen(k) ==
    [i \in 1..k |-> StackPattern[((i - 1) % Len(StackPattern)) + 1]]

StackNames == {StackNameOfLen(k) : k \in 0..MaxStackLen}

S_users  == <<"u", "s", "e", "r", "s">>
S_orders == <<"o", "r", "d", "e", "r", "s">>
S_create == <<"c", "r", "e", "a", "t", "e">>
S_getAll == <<"g", "e", "t", "_", "a", "l", "l">>

ModuleNames == {S_users, S_orders}
FunctionNames == {S_create, S_getAll}

InitName ==
    /\ useNvm = FALSE
    /\ runs = 0
    /\ SiteIdle
    /\ DomainIdle
    /\ DiscoverIdle
    /\ RoutesIdle
    /\ ZipIdle
    /\ stackName \in StackNames
    /\ lmodule \in ModuleNames
    /\ lfunc \in FunctionNames
    /\ lname = None

\* lambdaName(func.module, func.function)
NameLambda ==
    /\ lmodule # None
    /\ lname = None
    /\ lname' = lambdaName(stackName, lmodule, lfunc)
    /\ UNCHANGED <<stackName, lmodule, lfunc>>
    /\ UNCHANGED notName

NextName == NameLambda

SpecName == InitName /\ [][NextName]_vars

\* The AWS limit on a function name and the length of the "-" + 7 random
\* characters the provider appends.
Ceiling == 64
ReservedSuffixLength == 8

\* The dash-cased composite name lambdaName starts from.
DashedName == DashCase(Composite(stackName, lmodule, lfunc))

\* C6: lambdaName returns the dash-cased composite name unchanged when it has
\* at most 56 characters and its first 56 characters otherwise, so the result
\* never has more than ceiling - reservedSuffixLength characters.
C6_TruncatesToLimit ==
    lname # None =>
        /\ Len(DashedName) <= Ceiling - ReservedSuffixLength => lname = DashedName
        /\ Len(DashedName) > Ceiling - ReservedSuffixLength =>
              /\ Len(lname) = Ceiling - ReservedSuffixLength
              /\ \A i \in 1..Len(lname) : lname[i] = DashedName[i]
        /\ Len(lname) <= Ceiling - ReservedSuffixLength

\* A composite name of 70 characters has been cut to its first 56.
C6_Witness ==
    /\ lname # None
    /\ Len(DashedName) = 70
    /\ Len(lname) = 56
    /\ lname = SubSeq(DashedName, 1, 56)

\* ---------------------------------------------------------------- routes
S_modules == <<"m", "o", "d", "u", "l", "e", "s">>
S_default == <<".", "d", "e", "f", "a", "u", "l", "t">>

\* handler: `modules/${func.module}/${func.function}.default`
Handler(func) ==
    S_modules \o <<"/">> \o func.module \o <<"/">> \o func.function \o S_default

\* new aws.lambda.Function(lambdaName(func.module, func.function), {...}): the
\* id stands for the identity of the created object.
NewLambda(id, func) ==
    [ id      |-> id,
      name    |-> lambdaName(stackName, func.module, func.function),
      handler |-> Handler(func),
      runtime |-> "nodejs14.x" ]

\* functions.map(func => ({ ...func, lambda }))
LambdasOf(funcs) ==
    [i \in 1..Len(funcs) |->
        [ function |-> funcs[i].function,
          module   |-> funcs[i].module,
          paths    |-> funcs[i].paths,
          lambda   |-> NewLambda(i, funcs[i]) ]]

\* A route whose path lacks the module segment.
RouteOfFunctionOnly(l) ==
    [ path         |-> <<"/">> \o l.function,
      method       |-> "ANY",
      eventHandler |-> l.lambda ]

\* lambda => ({ path: `/${lambda.module}/${lambda.function}`, method: 'ANY', ... })
RouteOf(l) ==
    [ path         |-> <<"/">> \o l.module \o <<"/">> \o l.function,
      method       |-> "ANY",
      eventHandler |-> l.lambda ]

\* The records discovery gives for the files <function>.ts of the modules.
RouteInputs ==
    {ModuleFunction(m, f \o <<".">> \o S_ts, S_ts) : m \in ModuleNames, f \in FunctionNames}

InitRoutes ==
    /\ useNvm = FALSE
    /\ runs = 0
    /\ SiteIdle
    /\ DomainIdle
    /\ DiscoverIdle
    /\ NameIdle
    /\ ZipIdle
    /\ stackName \in {StackNameOfLen(6), StackNameOfLen(MaxStackLen)}
    /\ argFunctions \in UNION {[1..n -> RouteInputs] : n \in 0..MaxFunctions}
    /\ rpc = "lambdas"
    /\ lambdas = <<>>
    /\ thisLambdas = <<>>
    /\ routes = <<>>

\* const lambdas = functions.map(...); this.lambdas = lambdas.map(l => l.lambda)
CreateLambdas ==
    /\ rpc = "lambdas"
    /\ lambdas' = LambdasOf(argFunctions)
    /\ thisLambdas' = [i \in 1..Len(lambdas') |-> lambdas'[i].lambda]
    /\ rpc' = "api"
    /\ UNCHANGED <<stackName, argFunctions, routes>>
    /\ UNCHANGED notRoutes

\* new awsx.apigateway.API(apiName, { routes: lambdas.map(...), stageName: 'api' })
CreateApi ==
    /\ rpc = "api"
    /\ routes' = [i \in 1..Len(lambdas) |-> RouteOf(lambdas[i])]
    /\ rpc' = "done"
    /\ UNCHANGED <<stackName, argFunctions, lambdas, thisLambdas>>
    /\ UNCHANGED notRoutes

NextRoutes == CreateLambdas \/ CreateApi

SpecRoutes == InitRoutes /\ [][NextRoutes]_vars

\* C7: one route per input function, in input order; route i has the path
\* "/" + module_i + "/" + function_i, the method ANY and, as handler, the
\* lambda created for function i; routes and lambdas are as many as the
\* input functions, and (users, create) gets the path /users/create.
C7_OneRoutePerFunction ==
    rpc = "done" =>
        /\ Len(routes) = Len(argFunctions)
        /\ Len(thisLambdas) = Len(argFunctions)
        /\ \A i \in 1..Len(argFunctions) :
              LET f == argFunctions[i]
              IN /\ routes[i].path = <<"/">> \o f.module \o <<"/">> \o f.function
                 /\ routes[i].method = "ANY"
                 /\ routes[i].eventHandler = thisLambdas[i]
                 /\ thisLambdas[i].id = i
                 /\ thisLambdas[i].handler = Handler(f)
                 /\ (f.module = S_users /\ f.function = S_create) =>
                       routes[i].path = <<"/", "u", "s", "e", "r", "s", "/",
                                          "c", "r", "e", "a", "t", "e">>

\* A full input starting with (users, create) and holding another function
\* has been projected.
C7_Witness ==
    /\ rpc = "done"
    /\ Len(argFunctions) = MaxFunctions
    /\ argFunctions[1].module = S_users
    /\ argFunctions[1].function = S_create
    /\ argFunctions[2] # argFunctions[1]
    /\ Len(routes) = MaxFunctions

\* ---------------------------------------------------------------- shell commands
ExitCodes == 0..MaxExit

\* const [err] = await cmd(command, ...): err is set on a non-zero exit.
CmdErr(command, exit) ==
    IF exit = 0 THEN Nothing ELSE Some([command |-> command, exit |-> exit])

\* Files whose name starts with a dot: the shell's * does not match them.
HiddenFiles == {".env"}

\* `*` expanded by the shell in a directory holding `files`.
Glob(files) == files \ HiddenFiles

\* zip -q -r <archive> <names>: adds the names to the archive, creating it when
\* absent and updating it when present.
ZipInto(archive, names) ==
    Some((IF archive = Nothing THEN {} ELSE archive[1]) \cup names)

\* ---------------------------------------------------------------- buildTypescriptLambdaZip
\* const zip = `${root}/aws-lambda-api.zip`
LambdaZipPath == "<root>/aws-lambda-api.zip"

\* The build command with and without nvm.
LambdaBuildCommand(nvm) ==
    IF nvm
    THEN "source ~/.nvm/nvm.sh && nvm use && yarn && yarn build && cd build && yarn --prod"
    ELSE "yarn && yarn build && cd build && yarn --prod"

\* What `yarn build` and `yarn --prod` may leave in <root>/build.
BuildOutputs == {"modules", "node_modules", ".env"}

\* await fs.copy(`${root}/package.json`, `${build}/package.json`)
LZ_Copy ==
    /\ zpc = "copy"
    /\ IF pkgJson
       THEN /\ buildDir' = Some((IF buildDir = Nothing THEN {} ELSE buildDir[1])
                                    \cup {"package.json"})
            /\ zpc' = "build"
            /\ UNCHANGED zerr
       ELSE /\ zerr' = Some([command |-> "fs.copy", exit |-> "ENOENT"])
            /\ zpc' = "threw"
            /\ UNCHANGED buildDir
    /\ UNCHANGED <<useNvm, runs, pkgJson, zipFile, buildExit, zipExit, zresult, zipSource>>
    /\ UNCHANGED sourceZipVars
    /\ UNCHANGED notZip

\* cmd('... yarn && yarn build && cd build && yarn --prod') starts the shell;
\* the function is suspended at its await until the shell has exited.
LZ_SpawnBuild ==
    /\ zpc = "build"
    /\ zpc' = "building"
    /\ UNCHANGED <<useNvm, runs, pkgJson, buildDir, zipFile, buildExit, zipExit, zresult,
                   zerr, zipSource>>
    /\ UNCHANGED sourceZipVars
    /\ UNCHANGED notZip

\* The build shell exits: const [err] = await cmd(...); if (err) throw err
LZ_Build(exit, out) ==
    /\ zpc = "building"
    /\ buildExit' = Some(exit)
    /\ buildDir' = Some(buildDir[1] \cup out)
    /\ LET err == CmdErr(LambdaBuildCommand(useNvm), exit)
       IN IF err # Nothing
          THEN zerr' = err /\ zpc' = "threw"
          ELSE zpc' = "zip" /\ UNCHANGED zerr
    /\ UNCHANGED <<useNvm, runs, pkgJson, zipFile, zipExit, zresult, zipSource>>
    /\ UNCHANGED sourceZipVars
    /\ UNCHANGED notZip

\* cmd(`zip -q -r ${zip} *`, { cwd: build }) starts zip; the function is
\* suspended at its await until zip has exited.
LZ_SpawnZip ==
    /\ zpc = "zip"
    /\ zpc' = "zipping"
    /\ UNCHANGED <<useNvm, runs, pkgJson, buildDir, zipFile, buildExit, zipExit, zresult,
                   zerr, zipSource>>
    /\ UNCHANGED sourceZipVars
    /\ UNCHANGED notZip

\* zip exits: await cmd(`zip -q -r ${zip} *`, { cwd: build }); return zip
LZ_Zip(exit) ==
    /\ zpc = "zipping"
    /\ zipExit' = Some(exit)
    /\ zipFile' = IF exit = 0 THEN ZipInto(zipFile, Glob(buildDir[1])) ELSE zipFile
    /\ zresult' = Some(LambdaZipPath)
    /\ zpc' = "returned"
    /\ UNCHANGED <<useNvm, runs, pkgJson, buildDir, buildExit, zerr, zipSource>>
    /\ UNCHANGED sourceZipVars
    /\ UNCHANGED notZip

\* A path handed over as a promise that resolves with nothing to wait for.
PathAlwaysAvailable(result) == TRUE

\* new pulumi.asset.FileArchive(zipPath): zipPath is the promise returned by
\* buildTypescriptLambdaZip, and the archive is read at the path the promise
\* resolves with.
PathAvailable(result) == result # Nothing

\* const zipSource = new pulumi.asset.FileArchive(zipPath), read when the
\* lambdas are registered: the path it was given and the archive found there.
LZ_ReadArchive ==
    /\ PathAvailable(zresult)
    /\ zpc # "idle"
    /\ zipSource = Nothing
    /\ zipSource' = Some([path |-> zresult, archive |-> zipFile])
    /\ UNCHANGED <<useNvm, runs, pkgJson, buildDir, zipFile, zpc, buildExit, zipExit,
                   zresult, zerr>>
    /\ UNCHANGED sourceZipVars
    /\ UNCHANGED notZip

\* The next provisioning run against the same source directory calls
\* buildTypescriptLambdaZip again.
LZ_Rerun ==
    /\ zpc \in {"returned", "threw"}
    /\ runs < MaxRuns
    /\ runs' = runs + 1
    /\ zpc' = "copy"
    /\ buildExit' = Nothing
    /\ zipExit' = Nothing
    /\ zresult' = Nothing
    /\ zerr' = Nothing
    /\ zipSource' = Nothing
    /\ UNCHANGED <<useNvm, pkgJson, buildDir, zipFile>>
    /\ UNCHANGED sourceZipVars
    /\ UNCHANGED notZip

\* ---------------------------------------------------------------- buildSourceZip
\* const zip = `${args.sourceDir}/source.zip`
SourceZipPath == "<sourceDir>/source.zip"

\* The content of <__dirname>/buildspec.yml, in words.
BuildspecTemplate == <<"version: 0.2", "phases: build: commands:", "{{command}}">>

\* The values of args.buildCommand tried.
BuildCommands == {"yarn run build-script", "make"}

\* The files of args.sourceDir.
SourceDirFiles == {"index.js", "package.json", ".env"}

\* `${__dirname}/source`, the directory the buildspec is written to.
PkgSourceDir == "<__dirname>/source"

\* The values of args.sourceDir tried: the package's own source directory and
\* a directory of the caller.
SourceDirs == {PkgSourceDir, "/w"}

\* A directory is a function from file names to contents; the content of a
\* source file is written as its name.
SourceDirContents == [n \in SourceDirFiles |-> <<n>>]

\* fs.writeFile(`${dir}/${name}`, content) in a directory holding `files`
WriteFile(files, name, content) ==
    [n \in DOMAIN files \cup {name} |-> IF n = name THEN content ELSE files[n]]

\* The files of args.sourceDir, the cwd of the zip command.
FilesOfSourceDir ==
    IF argSourceDir = PkgSourceDir THEN pkgSource[1] ELSE SourceDirContents

\* zip -q -r <archive> * in a directory holding `files`: the files the shell's
\* * matches are added to the archive with their contents.
ZipFilesInto(archive, files) ==
    LET old   == IF archive = Nothing THEN <<>> ELSE archive[1]
        names == Glob(DOMAIN files)
    IN Some([n \in DOMAIN old \cup names |-> IF n \in names THEN files[n] ELSE old[n]])

\* const buildspecTemplate = await fs.readFile(...);
\* const buildspec = buildspecTemplate.replace('{{command}}', args.buildCommand)
SZ_Read ==
    /\ spc = "read"
    /\ buildspec' = Some(Replace(BuildspecTemplate, <<"{{command}}">>, <<buildCommand>>))
    /\ spc' = "write"
    /\ UNCHANGED <<buildCommand, argSourceDir, pkgSource, sourceZip, szipExit, sresult, serr>>
    /\ UNCHANGED <<useNvm, runs>>
    /\ UNCHANGED lambdaZipVars
    /\ UNCHANGED notZip

\* await fs.writeFile(`${__dirname}/source/buildspec.yml`, buildspec)
SZ_Write ==
    /\ spc = "write"
    /\ IF pkgSource = Nothing
       THEN /\ serr' = Some([command |-> "fs.writeFile", exit |-> "ENOENT"])
            /\ spc' = "threw"
            /\ UNCHANGED pkgSource
       ELSE /\ pkgSource' = Some(WriteFile(pkgSource[1], "buildspec.yml", buildspec[1]))
            /\ spc' = "zip"
            /\ UNCHANGED serr
    /\ UNCHANGED <<buildCommand, argSourceDir, sourceZip, buildspec, szipExit, sresult>>
    /\ UNCHANGED <<useNvm, runs>>
    /\ UNCHANGED lambdaZipVars
    /\ UNCHANGED notZip

\* await cmd(`zip -q -r ${zip} *`, { cwd: args.sourceDir }); return zip
SZ_Zip(exit) ==
    /\ spc = "zip"
    /\ szipExit' = Some(exit)
    /\ sourceZip' = IF exit = 0 THEN ZipFilesInto(sourceZip, FilesOfSourceDir) ELSE sourceZip
    /\ sresult' = Some(SourceZipPath)
    /\ spc' = "returned"
    /\ UNCHANGED <<buildCommand, argSourceDir, pkgSource, buildspec, serr>>
    /\ UNCHANGED <<useNvm, runs>>
    /\ UNCHANGED lambdaZipVars
    /\ UNCHANGED notZip

InitZip ==
    /\ SiteIdle
    /\ DomainIdle
    /\ DiscoverIdle
    /\ stackName = None
    /\ NameIdle
    /\ RoutesIdle
    /\ useNvm \in BOOLEAN
    /\ runs = 1
    /\ pkgJson \in BOOLEAN
    /\ buildDir = Nothing
    /\ zipFile = Nothing
    /\ zpc = "copy"
    /\ buildExit = Nothing
    /\ zipExit = Nothing
    /\ zresult = Nothing
    /\ zerr = Nothing
    /\ zipSource = Nothing
    /\ buildCommand \in BuildCommands
    /\ argSourceDir \in SourceDirs
    /\ pkgSource \in {Nothing, Some(<<>>), Some(SourceDirContents)}
    /\ argSourceDir = PkgSourceDir => pkgSource = Some(SourceDirContents)
    /\ sourceZip = Nothing
    /\ spc = "read"
    /\ buildspec = Nothing
    /\ szipExit = Nothing
    /\ sresult = Nothing
    /\ serr = Nothing

NextZip ==
    \/ LZ_Copy
    \/ LZ_SpawnBuild
    \/ \E x \in ExitCodes, out \in SUBSET BuildOutputs : LZ_Build(x, out)
    \/ LZ_SpawnZip
    \/ \E x \in ExitCodes : LZ_Zip(x)
    \/ LZ_ReadArchive
    \/ LZ_Rerun
    \/ SZ_Read
    \/ SZ_Write
    \/ \E x \in ExitCodes : SZ_Zip(x)

SpecZip == InitZip /\ [][NextZip]_vars

Failed(exit) == exit # Nothing /\ exit[1] # 0

C10_FailedArchiveFailsBuild ==
    /\ (zpc \in {"returned", "threw"} /\ Failed(zipExit)) =>
          /\ zpc = "threw"
          /\ zerr # Nothing
          /\ zresult = Nothing
          /\ zipFile = Nothing
    /\ (spc \in {"returned", "threw"} /\ Failed(szipExit)) =>
          /\ spc = "threw"
          /\ serr # Nothing
          /\ sresult = Nothing
          /\ sourceZip = Nothing

\* The buildspec the archive is to hold: the template with the command in the
\* place of the placeholder.
SubstitutedBuildspec == <<"version: 0.2", "phases: build: commands:", buildCommand>>

\* C13: once buildSourceZip has returned after a zip that exited with 0, the
\* archive at <sourceDir>/source.zip holds a buildspec.yml whose '{{command}}'
\* placeholder has been replaced by args.buildCommand, whatever args.sourceDir is.
C13_ArchiveHoldsSubstitutedBuildspec ==
    (spc = "returned" /\ szipExit = Some(0)) =>
        /\ "buildspec.yml" \in DOMAIN sourceZip[1]
        /\ sourceZip[1]["buildspec.yml"] = SubstitutedBuildspec

\* ---------------------------------------------------------------- AWSStaticWebsite
S_dist == <<"d", "i", "s", "t">>
S_index == <<"i", "n", "d", "e", "x", ".", "h", "t", "m", "l">>
S_css == <<"c", "s", "s">>
S_acss == <<"a", ".", "c", "s", "s">>
S_env == <<".", "e", "n", "v">>

\* const distributionDir = path.join(sourceDir, distDir)
distributionDir == PathJoin(SourceDir, S_dist)

\* The names found in a distribution directory.
DistNames == {S_index, S_css, S_acss, S_env}

\* An entry of the distribution tree: its directory (the names leading to it
\* from the distribution root), its name and what statSync says it is.
DistEntry(parent, name, kind) == [parent |-> parent, name |-> name, kind |-> kind]

\* The trees a build command may leave in the distribution directory.
DistTrees ==
    { {},
      { DistEntry(<<>>, S_index, "file") },
      { DistEntry(<<>>, S_index, "file"),
        DistEntry(<<>>, S_css, "dir"),
        DistEntry(<<S_css>>, S_acss, "file") },
      { DistEntry(<<>>, S_env, "file"),
        DistEntry(<<>>, S_css, "dir") },
      { DistEntry(<<>>, S_index, "file"),
        DistEntry(<<>>, S_css, "dir"),
        DistEntry(<<S_css>>, S_acss, "file"),
        DistEntry(<<S_css>>, S_env, "file"),
        DistEntry(<<S_css>>, S_css, "dir"),
        DistEntry(<<S_css, S_css>>, S_acss, "file"),
        DistEntry(<<S_css, S_css>>, S_index, "file") } }

\* fs.readdirSync(dir): the names in `dir`, in the listing order `order`.
DistListing(tree, rel, order) ==
    LET present(name) == \E e \in tree : e.parent = rel /\ e.name = name
    IN SelectSeq(order, present)

KindOf(tree, rel, name) ==
    (CHOOSE e \in tree : e.parent = rel /\ e.name = name).kind

\* crawlDirectory(dir, f): the file paths f is called with, in call order.
\* crawlFiles is its for loop over the rest of the listing.
RECURSIVE crawlDirectory(_, _, _, _)
RECURSIVE crawlFiles(_, _, _, _, _)
crawlFiles(tree, dir, rel, order, files) ==
    IF files = <<>> THEN <<>>
    ELSE LET file     == Head(files)
             filePath == dir \o <<"/">> \o file
             kind     == KindOf(tree, rel, file)
         IN (IF kind = "dir"
             THEN crawlDirectory(tree, filePath, Append(rel, file), order)
             ELSE <<>>)
            \o (IF kind = "file" THEN <<filePath>> ELSE <<>>)
            \o crawlFiles(tree, dir, rel, order, Tail(files))

crawlDirectory(tree, dir, rel, order) ==
    crawlFiles(tree, dir, rel, order, DistListing(tree, rel, order))

\* A callback that keys an object by the last segment of the file path.
BucketObjectBaseName(filePath) ==
    LET segs == SplitSlash(filePath)
        base == segs[Len(segs)]
    IN [ name   |-> base,
         key    |-> base,
         acl    |-> "public-read",
         source |-> filePath ]

\* The callback handed to crawlDirectory: new aws.s3.BucketObject(...)
BucketObject(filePath) ==
    LET relativeFilePath == Replace(filePath, distributionDir \o <<"/">>, <<>>)
    IN [ name   |-> relativeFilePath,
         key    |-> relativeFilePath,
         acl    |-> "public-read",
         source |-> filePath ]

\* const nvmPre = USE_NVM ? `source ~/.nvm/nvm.sh && nvm use && ` : ''
nvmPre(nvm) == IF nvm THEN "source ~/.nvm/nvm.sh && nvm use && " ELSE ""

\* `${nvmPre}${command}`
SiteCommand(command) == nvmPre(useNvm) \o command

\* The values of args.preBuildCommand and args.buildCommand tried.
PreBuildCommands == {"", "yarn"}
SiteBuildCommands == {"", "yarn build"}

InitSite ==
    /\ DiscoverIdle
    /\ DomainIdle
    /\ stackName = None
    /\ NameIdle
    /\ RoutesIdle
    /\ runs = 0
    /\ ZipIdle
    /\ useNvm \in BOOLEAN
    /\ preBuildCommand \in PreBuildCommands
    /\ siteBuildCommand \in SiteBuildCommands
    /\ dist = Nothing
    /\ wpc = "pre"
    /\ preExit = Nothing
    /\ siteExit = Nothing
    /\ bucketObjects = <<>>
    /\ werr = Nothing

\* if (!!preBuildCommand) { await cmd(`${nvmPre}${preBuildCommand}`, ...) }:
\* cmd starts the shell and the function is suspended at its await.
Site_SpawnPreBuild ==
    /\ wpc = "pre"
    /\ preBuildCommand # ""
    /\ wpc' = "prebuilding"
    /\ UNCHANGED <<useNvm, preBuildCommand, siteBuildCommand, dist, preExit, siteExit,
                   bucketObjects, werr>>
    /\ UNCHANGED notSite

\* The pre-build shell exits; the value cmd resolves with is dropped.
Site_PreBuild(exit) ==
    /\ wpc = "prebuilding"
    /\ preExit' = Some(exit)
    /\ wpc' = "build"
    /\ UNCHANGED <<useNvm, preBuildCommand, siteBuildCommand, dist, siteExit,
                   bucketObjects, werr>>
    /\ UNCHANGED notSite

Site_NoPreBuild ==
    /\ wpc = "pre"
    /\ preBuildCommand = ""
    /\ wpc' = "build"
    /\ UNCHANGED <<useNvm, preBuildCommand, siteBuildCommand, dist, preExit, siteExit,
                   bucketObjects, werr>>
    /\ UNCHANGED notSite

\* if (!!buildCommand) { await cmd(`${nvmPre}${buildCommand}`, ...) }: cmd
\* starts the shell and the function is suspended at its await.
Site_SpawnBuild ==
    /\ wpc = "build"
    /\ siteBuildCommand # ""
    /\ wpc' = "building"
    /\ UNCHANGED <<useNvm, preBuildCommand, siteBuildCommand, dist, preExit, siteExit,
                   bucketObjects, werr>>
    /\ UNCHANGED notSite

\* The build shell exits; the value cmd resolves with is dropped.
Site_Build(exit, after) ==
    /\ wpc = "building"
    /\ siteExit' = Some(exit)
    /\ dist' = after
    /\ wpc' = "crawl"
    /\ UNCHANGED <<useNvm, preBuildCommand, siteBuildCommand, preExit, bucketObjects, werr>>
    /\ UNCHANGED notSite

Site_NoBuild ==
    /\ wpc = "build"
    /\ siteBuildCommand = ""
    /\ wpc' = "crawl"
    /\ UNCHANGED <<useNvm, preBuildCommand, siteBuildCommand, dist, preExit, siteExit,
                   bucketObjects, werr>>
    /\ UNCHANGED notSite

\* A callback that is called without waiting for the build promise.
BuildNotAwaited(pc) == pc \in {"pre", "prebuilding", "build", "building", "crawl"}

\* build.then(callback): the callback runs once buildSiteDistributionFolder
\* has returned.
BuildSettled(pc) == pc = "crawl"

\* build.then(() => crawlDirectory(distributionDir, filePath => new BucketObject ...))
Site_Crawl(order) ==
    /\ BuildSettled(wpc)
    /\ IF ReaddirThrows(dist # Nothing)
       THEN /\ werr' = Some([command |-> "fs.readdirSync", exit |-> "ENOENT"])
            /\ wpc' = "rejected"
            /\ UNCHANGED bucketObjects
       ELSE /\ LET found == crawlDirectory(dist[1], distributionDir, <<>>, order)
               IN bucketObjects' = [i \in 1..Len(found) |-> BucketObject(found[i])]
            /\ wpc' = "done"
            /\ UNCHANGED werr
    /\ UNCHANGED <<useNvm, preBuildCommand, siteBuildCommand, dist, preExit, siteExit>>
    /\ UNCHANGED notSite

\* What the build command may leave at the distribution directory: nothing,
\* or one of the trees.
DistAfter == {Nothing} \cup {Some(t) : t \in DistTrees}

NextSite ==
    \/ Site_SpawnPreBuild
    \/ \E x \in ExitCodes : Site_PreBuild(x)
    \/ Site_NoPreBuild
    \/ Site_SpawnBuild
    \/ \E x \in ExitCodes, d \in DistAfter : Site_Build(x, d)
    \/ Site_NoBuild
    \/ \E o \in Listings(DistNames) : Site_Crawl(o)

SpecSite == InitSite /\ [][NextSite]_vars

\* C9: a non-zero exit of the pre-build or of the build command fails the
\* static-website build: the build command is not run after a failed
\* pre-build, no bucket object is declared, and the operation ends with an
\* error that carries the failed command and its exit status.
C9_FailedSiteCommandFailsOperation ==
    /\ Failed(preExit) => siteExit = Nothing
    /\ (Failed(preExit) \/ Failed(siteExit)) => bucketObjects = <<>>
    /\ (wpc \in {"done", "rejected"} /\ (Failed(preExit) \/ Failed(siteExit))) =>
          /\ wpc = "rejected"
          /\ \/ Failed(preExit) /\ werr = CmdErr(SiteCommand(preBuildCommand), preExit[1])
             \/ Failed(siteExit) /\ werr = CmdErr(SiteCommand(siteBuildCommand), siteExit[1])

\* The path of a tree entry relative to the distribution root.
RelativePathOf(e) == JoinSlash(Append(e.parent, e.name))

\* The bucket objects declared for a tree entry.
ObjectsOf(e) ==
    {i \in 1..Len(bucketObjects) :
        bucketObjects[i].source = distributionDir \o <<"/">> \o RelativePathOf(e)}

\* C11: once the crawl has run, every regular file of the distribution tree,
\* at any depth and hidden files included, has exactly one bucket object, whose
\* key is the file's path relative to the distribution root; a directory has
\* none, every object stands for a file of the tree, and no two objects
\* share a key.
C11_EveryFileCollectedOnceUnderRelativeKey ==
    wpc = "done" =>
        /\ \A e \in dist[1] :
              IF e.kind = "file"
              THEN /\ Cardinality(ObjectsOf(e)) = 1
                   /\ \A i \in ObjectsOf(e) : bucketObjects[i].key = RelativePathOf(e)
              ELSE /\ ObjectsOf(e) = {}
                   /\ \A i \in 1..Len(bucketObjects) :
                         bucketObjects[i].key # RelativePathOf(e)
        /\ \A i \in 1..Len(bucketObjects) :
              \E e \in dist[1] : e.kind = "file" /\ i \in ObjectsOf(e)
        /\ \A i, j \in 1..Len(bucketObjects) :
              bucketObjects[i].key = bucketObjects[j].key => i = j

\* A successful build left index.html, css/a.css, the hidden css/.env and two
\* files two directories down, and the crawl declared one object for each.
C11_Witness ==
    /\ wpc = "done"
    /\ siteExit = Some(0)
    /\ {bucketObjects[i].key : i \in 1..Len(bucketObjects)} =
          { S_index,
            S_css \o <<"/">> \o S_acss,
            S_css \o <<"/">> \o S_env,
            S_css \o <<"/">> \o S_css \o <<"/">> \o S_acss,
            S_css \o <<"/">> \o S_css \o <<"/">> \o S_index }
    /\ Len(bucketObjects) = 5

\* ---------------------------------------------------------------- AWSStaticWebsite: custom domain
\* The values of args.domain.domain and args.domain.subdomain tried.
DomainNames == {"example.com", "exobase.dev", "site.io"}
Subdomains == {"", "app", "www", "api"}

\* args.domain: not given, or { domain, fqd, subdomain }
DomainArgs ==
    {Nothing} \cup
    { Some([ domain    |-> d,
             fqd       |-> IF sub = "" THEN d ELSE sub \o "." \o d,
             subdomain |-> sub ]) : d \in DomainNames, sub \in Subdomains }

\* The hosted zone ids aws.route53.getZone may answer with.
ZoneIds == {"Z1", "Z2", "Z3"}

\* aws.acm.getCertificate({ domain: name, mostRecent: true, types: [...] })
getCertificate(name) == [domain |-> name, arn |-> "arn:aws:acm:" \o name]

\* domain.subdomain ? `*.${domain.domain}` : domain.domain
CertificateDomain(d) == IF d.subdomain # "" THEN "*." \o d.domain ELSE d.domain

\* const useCustomDomain = !!domain
useCustomDomain == domain # Nothing

\* const useWWWSubdomain = useCustomDomain && !!domain.subdomain
useWWWSubdomain == useCustomDomain /\ domain[1].subdomain # ""

\* `${domain}`: the template literal is given the args.domain object itself.
DomainObjectAsString == "[object Object]"

InitDomain ==
    /\ DiscoverIdle
    /\ stackName = None
    /\ NameIdle
    /\ RoutesIdle
    /\ useNvm = FALSE
    /\ runs = 0
    /\ ZipIdle
    /\ SiteIdle
    /\ domain \in DomainArgs
    /\ cpc = "cert"
    /\ cert = Nothing
    /\ cdn = Nothing
    /\ zone = Nothing
    /\ aRecord = Nothing
    /\ wwwaRecord = Nothing
    /\ cerr = Nothing

\* const cert = (() => { if (domain) return undefined;
\*                       return pulumi.output(aws.acm.getCertificate({ domain:
\*                           domain.subdomain ? ... : ... })) })()
\* Past the first return domain is undefined, and reading domain.subdomain
\* throws a TypeError.
Domain_Cert ==
    /\ cpc = "cert"
    /\ IF domain # Nothing
       THEN /\ cert' = Nothing
            /\ cpc' = "cdn"
            /\ UNCHANGED cerr
       ELSE IF domain = Nothing
            THEN /\ cerr' = Some("TypeError")
                 /\ cpc' = "threw"
                 /\ UNCHANGED cert
            ELSE /\ cert' = Some(getCertificate(CertificateDomain(domain[1])))
                 /\ cpc' = "cdn"
                 /\ UNCHANGED cerr
    /\ UNCHANGED <<domain, cdn, zone, aRecord, wwwaRecord>>
    /\ UNCHANGED notDomain

\* this.cdn = new aws.cloudfront.Distribution('cdn', { aliases, ...,
\*     viewerCertificate: useCustomDomain
\*         ? { acmCertificateArn: cert?.arn, sslSupportMethod: "sni-only" }
\*         : undefined })
Domain_Cdn ==
    /\ cpc = "cdn"
    /\ cdn' = Some([ aliases |->
                       IF ~useCustomDomain THEN Nothing
                       ELSE IF ~useWWWSubdomain THEN Some(<<domain[1].fqd>>)
                       ELSE Some(<<domain[1].fqd, "www." \o domain[1].domain>>),
                     viewerCertificate |->
                       IF useCustomDomain
                       THEN Some([ acmCertificateArn |->
                                     IF cert = Nothing THEN Nothing ELSE Some(cert[1].arn),
                                   sslSupportMethod |-> "sni-only" ])
                       ELSE Nothing ])
    /\ cpc' = IF useCustomDomain THEN "zone" ELSE "done"
    /\ UNCHANGED <<domain, cert, zone, aRecord, wwwaRecord, cerr>>
    /\ UNCHANGED notDomain

\* const zone = pulumi.output(aws.route53.getZone({ name: domain.domain, ... }))
Domain_Zone(id) ==
    /\ cpc = "zone"
    /\ zone' = Some([name |-> domain[1].domain, id |-> id])
    /\ cpc' = "aRecord"
    /\ UNCHANGED <<domain, cert, cdn, aRecord, wwwaRecord, cerr>>
    /\ UNCHANGED notDomain

\* this.aRecord = new aws.route53.Record(domain.subdomain, { name: domain.subdomain, ... })
Domain_ARecord ==
    /\ cpc = "aRecord"
    /\ aRecord' = Some([ resource |-> domain[1].subdomain,
                         name     |-> domain[1].subdomain,
                         zoneId   |-> zone[1].id,
                         type     |-> "A" ])
    /\ cpc' = IF useWWWSubdomain THEN "www" ELSE "done"
    /\ UNCHANGED <<domain, cert, cdn, zone, wwwaRecord, cerr>>
    /\ UNCHANGED notDomain

\* this.wwwaRecord = new aws.route53.Record(`${domain}-www-alias`,
\*     { name: `www.${domain}`, ... })
Domain_WwwRecord ==
    /\ cpc = "www"
    /\ wwwaRecord' = Some([ resource |-> DomainObjectAsString \o "-www-alias",
                            name     |-> "www." \o DomainObjectAsString,
                            zoneId   |-> zone[1].id,
                            type     |-> "A" ])
    /\ cpc' = "done"
    /\ UNCHANGED <<domain, cert, cdn, zone, aRecord, cerr>>
    /\ UNCHANGED notDomain

NextDomain ==
    \/ Domain_Cert
    \/ Domain_Cdn
    \/ \E id \in ZoneIds : Domain_Zone(id)
    \/ Domain_ARecord
    \/ Domain_WwwRecord

SpecDomain == InitDomain /\ [][NextDomain]_vars

\* The certificate the claim has looked up for a given args.domain.
CertificateFor(d) ==
    getCertificate(IF d.subdomain # "" THEN "*." \o d.domain ELSE d.domain)

\* C15: the certificate lookup matches the custom-domain setting. With
\* args.domain given, once the lookup step is over a certificate has been
\* looked up for '*.<domain>' (subdomain set) or for the domain itself, and
\* the CDN's viewerCertificate carries its ARN; with args.domain absent no
\* certificate is looked up, viewerCertificate is undefined and the
\* constructor throws nothing.
C15_CertificateLookupMatchesCustomDomain ==
    /\ (domain # Nothing /\ cpc \notin {"idle", "cert"}) =>
          cert = Some(CertificateFor(domain[1]))
    /\ (domain # Nothing /\ cdn # Nothing) =>
          cdn[1].viewerCertificate =
              Some([ acmCertificateArn |-> Some(CertificateFor(domain[1]).arn),
                     sslSupportMethod |-> "sni-only" ])
    /\ domain = Nothing =>
          /\ cert = Nothing
          /\ cdn # Nothing => cdn[1].viewerCertificate = Nothing
          /\ cpc # "threw"
          /\ cerr = Nothing

\* ---------------------------------------------------------------- the bundle builds
\* A run builds the lambda archive and the source archive, or the static site.
InitBuilds == InitZip \/ InitSite

NextBuilds == NextZip \/ NextSite

SpecBuilds == InitBuilds /\ [][NextBuilds]_vars

\* Has a command that is to be run (a non-empty command line) exited?
Exited(command, exit) == command # "" => exit # Nothing

\* C12: the phases of a bundle build never overlap. In the static site, the
\* build command is started only when the pre-build command has exited, the
\* crawl runs only when the build command has exited, and bucket objects
\* exist only once the crawl is over. In the lambda build, zip is started only
\* when the build command has exited, the promise resolves with the archive
\* path only when zip has exited, and the FileArchive reads the archive only
\* at the resolved path, with no step of the build still running.
C12_PhasesStrictlyOrdered ==
    /\ wpc \in {"build", "building", "crawl", "done", "rejected"} =>
          Exited(preBuildCommand, preExit)
    /\ wpc \in {"pre", "prebuilding", "build"} => siteExit = Nothing
    /\ wpc \in {"crawl", "done", "rejected"} =>
          /\ Exited(preBuildCommand, preExit)
          /\ Exited(siteBuildCommand, siteExit)
    /\ bucketObjects # <<>> => wpc = "done"
    /\ zpc \in {"copy", "build", "building"} => buildExit = Nothing /\ zipExit = Nothing
    /\ zpc \in {"zip", "zipping"} => buildExit # Nothing /\ zipExit = Nothing
    /\ zresult # Nothing =>
          /\ zpc = "returned"
          /\ buildExit # Nothing
          /\ zipExit # Nothing
    /\ zipSource # Nothing =>
          /\ zpc = "returned"
          /\ buildExit # Nothing
          /\ zipExit # Nothing
          /\ zipSource[1].path = Some(LambdaZipPath)
          /\ zipSource[1].archive = zipFile

\* A site whose pre-build and build commands both ran and exited with 0, and
\* whose crawl then declared the objects of the built tree.
C12_Witness ==
    /\ wpc = "done"
    /\ preBuildCommand # ""
    /\ siteBuildCommand # ""
    /\ preExit = Some(0)
    /\ siteExit = Some(0)
    /\ Len(bucketObjects) = 2

\* ---------------------------------------------------------------- the packages together
\* A run exercises one part; the parts share no state.
Init == InitDiscover \/ InitName \/ InitRoutes \/ InitZip \/ InitSite \/ InitDomain

Next == NextDiscover \/ NextName \/ NextRoutes \/ NextZip \/ NextSite \/ NextDomain

Spec == Init /\ [][Next]_vars

====
